---------------------------- MODULE Spec2Model ----------------------------
(***************************************************************************)
(* Model of the 3D quadrotor simulator of 3-3D-Quadrotor.ipynb.            *)
(*                                                                         *)
(* The notebook computes in IEEE doubles; the model computes in fixed      *)
(* point, every quantity a count of a stated unit:                         *)
(*   position, velocity, acceleration  1e-7 m, 1e-7 m/s, 1e-7 m/s^2        *)
(*   force, torque                     1e-7 N, 1e-7 N m                    *)
(*   quaternion component              1e-8            (QS)                *)
(*   quaternion rate                   1e-6 /s                             *)
(*   angular velocity, acceleration    1e-6 rad/s, 1e-6 rad/s^2            *)
(*   mass                              1e-3 kg                             *)
(*   inertia                           1e-5 kg m^2                         *)
(*   rotor rate                        1e-2 rad/s                          *)
(*   time                              a double: 1e-3 s and 2^-60/125 s    *)
(*   time inside a solve               1e-9 s                              *)
(* The rotor rates, the mixed thrust and torque and the times are whole    *)
(* numbers of units, a product or quotient rounded to the nearest unit,    *)
(* half away from zero (sign-symmetric, as IEEE rounding is).  The state,  *)
(* its rates and the integrator's vectors are held to 1e-7 of a unit       *)
(* (Grain), and in them inf, -inf and nan are values as in a double.       *)
(***************************************************************************)
EXTENDS Integers, Sequences, FiniteSets, TLC

VARIABLES
    p,          \* the global Params: [mass, inertia]            (cell 4)
    pc,         \* position of the run: construction, loop, macro-step phases
    t,          \* SimulatorBase.t
    t_total,    \* SimulatorBase.t_total
    initial_state, \* the initial_state handed to SimulatorBase
    state,      \* FullQuadrotorDynamics.state (self.state)
    controller, \* the injected controller policy
    reference,  \* the TrajectoryState of this macro-step
    cmd,        \* the QuadrotorCommands.rotor_rates of this macro-step
    consulted,  \* controller.step calls made in this macro-step
    u,          \* [u1, u2] captured by state_derivative_wrapped's closure
    y,          \* the integrator's current vector
    h_abs,      \* the solver's next step length, 1e-9 s
    step_rejected, \* the solver's step_rejected: the step under way was retried
    nfev,       \* the solver's nfev: evaluations made so far in this solve
    ts,         \* the time the solve has reached, 1e-9 s
    sub,        \* solver steps taken so far in this solve
    ks,         \* the stage derivatives K the solver holds for its current step
    evalU,      \* [u1, u2] passed to the latest state_derivative evaluation
    evalY,      \* the vector the latest evaluation was made at
    evalD,      \* the derivative vector the latest evaluation returned
    output,     \* the append-only output record
    failure,    \* the exception or condition that ended the run, or "none"
    fpc,        \* position of the function harness
    fin,        \* harness inputs: [state, rates]
    fu,         \* harness: mixed [u1, u2]
    fd,         \* harness: state_derivative's result
    fvec,       \* harness: to_state_vector's result
    fdvec,      \* harness: state_derivative_wrapped's result
    fback       \* harness: from_state_vector's result

simvars == <<pc, t, t_total, initial_state, state, controller, reference,
             cmd, consulted, u, y, h_abs, step_rejected, nfev, ts, sub,
             ks, evalU, evalY, evalD, output, failure>>
fnvars  == <<fpc, fin, fu, fd, fvec, fdvec, fback>>
vars    == <<p, simvars, fnvars>>

---------------------------------------------------------------------------
(* Fixed-point arithmetic.                                                 *)

Abs(x) == IF x < 0 THEN -x ELSE x
Sgn(x) == IF x < 0 THEN -1 ELSE IF x > 0 THEN 1 ELSE 0

MaxInt == 2147483647

\* <<Q, R>> with a*b = Q*c + R and 0 <= R < c, for naturals a, b and c > 0,
\* by binary long multiplication: no intermediate value exceeds MaxInt.
RECURSIVE MulDivQR(_, _, _)
MulDivQR(a, b, c) ==
    IF b = 0 THEN <<0, 0>>
    ELSE LET h   == MulDivQR(a, b \div 2, c)
             dq  == IF h[2] >= c - h[2] THEN 2 * h[1] + 1 ELSE 2 * h[1]
             dr  == IF h[2] >= c - h[2] THEN h[2] - (c - h[2]) ELSE 2 * h[2]
             qa  == a \div c
             ra  == a % c
         IN  IF b % 2 = 0 THEN <<dq, dr>>
             ELSE IF dr >= c - ra THEN <<dq + qa + 1, dr - (c - ra)>>
                  ELSE <<dq + qa, dr + ra>>

\* The same by long multiplication in base B, for B * c <= MaxInt:
\* a = qa*c + ra, and with a*(b \div B) = Q*c + R and bl = b % B,
\* a*b = (B*Q + qa*bl)*c + B*R + ra*bl, both products below MaxInt.
RECURSIVE MulDivRadix(_, _, _, _, _)
MulDivRadix(qa, ra, b, c, B) ==
    IF b = 0 THEN <<0, 0>>
    ELSE LET h  == MulDivRadix(qa, ra, b \div B, c, B)
             bl == b % B
             x1 == B * h[2]
             x2 == ra * bl
             r  == (x1 % c) + (x2 % c)
         IN  <<B * h[1] + qa * bl + (x1 \div c) + (x2 \div c)
                 + (IF r >= c THEN 1 ELSE 0),
               IF r >= c THEN r - c ELSE r>>

\* round(a*b/c) for naturals a, b and c > 0.  When a*b exceeds MaxInt and
\* c <= 46340, a = qa*c + ra and b = qb*c + rb give
\* a*b/c = qa*b + ra*qb + ra*rb/c with ra*rb < c*c <= MaxInt.
MulDivNat(a, b, c) ==
    IF a = 0 \/ b = 0 THEN 0
    ELSE IF b <= MaxInt \div a
         THEN LET n == a * b
              IN  (n \div c) + (IF (n % c) >= c - (n % c) THEN 1 ELSE 0)
         ELSE IF c <= 46340
         THEN LET qa == a \div c
                  ra == a % c
                  qb == b \div c
                  rb == b % c
                  n  == ra * rb
              IN  qa * b + ra * qb + (n \div c)
                  + (IF (n % c) >= c - (n % c) THEN 1 ELSE 0)
         ELSE LET qr == IF c <= 134217728
                        THEN MulDivRadix(a \div c, a % c, b, c, MaxInt \div c)
                        ELSE MulDivQR(a, b, c)
              IN  qr[1] + (IF qr[2] >= c - qr[2] THEN 1 ELSE 0)

\* round(a*b/c), c > 0, any signs.
FxMulDiv(a, b, c) == Sgn(a) * Sgn(b) * MulDivNat(Abs(a), Abs(b), c)

\* round(a/c), c > 0.
FxDiv(a, c) == FxMulDiv(a, 1, c)

\* <<hi, lo>> with a * b = hi * 10^8 + lo and lo < 10^8, for naturals
\* a, b < 4 * 10^8, from their halves of four digits.
Product8(a, b) ==
    LET a1 == a \div 10^4
        a0 == a % 10^4
        b1 == b \div 10^4
        b0 == b % 10^4
        x  == a1 * b0 + a0 * b1
        lo == (x % 10^4) * 10^4 + a0 * b0
    IN  <<a1 * b1 + x \div 10^4 + lo \div 10^8, lo % 10^8>>

\* The k of c = 10^k for k in 5..9, and 0 for any other c.
Pow10(c) ==
    IF c = 10^8 THEN 8 ELSE IF c = 10^7 THEN 7 ELSE IF c = 10^9 THEN 9
    ELSE IF c = 10^5 THEN 5 ELSE IF c = 10^6 THEN 6 ELSE 0

\* (hi * 10^8 + lo) divided by c = 10^k: <<quotient, remainder>>.
Shift8(hl, c, k) ==
    IF k = 8 THEN hl
    ELSE IF k = 9 THEN <<hl[1] \div 10, (hl[1] % 10) * 10^8 + hl[2]>>
    ELSE <<hl[1] * (10^8 \div c) + hl[2] \div c, hl[2] % c>>

\* <<Q, R>> with a * b = Q * c + R and 0 <= R < c, for naturals a, b and
\* c > 0 with Q <= MaxInt.
MulDivFloor(a, b, c) ==
    IF a = 0 \/ b = 0 THEN <<0, 0>>
    ELSE IF b <= MaxInt \div a THEN <<(a * b) \div c, (a * b) % c>>
    ELSE IF c <= 46340
    THEN LET qa == a \div c
             ra == a % c
             qb == b \div c
             rb == b % c
         IN  <<qa * b + ra * qb + (ra * rb) \div c, (ra * rb) % c>>
    ELSE IF Pow10(c) # 0 /\ a < 4 * 10^8 /\ b < 4 * 10^8
    THEN Shift8(Product8(a, b), c, Pow10(c))
    ELSE IF c <= 134217728
    THEN MulDivRadix(a \div c, a % c, b, c, MaxInt \div c)
    ELSE MulDivQR(a, b, c)

\* A double is kept to more than the unit it is counted in: a number is
\* <<n, f>>, n units and f parts of a unit, Grain parts to the unit, with
\* |f| < Grain and f of the sign of n.
Grain == 10^7

\* The number of n units and f parts, for any n and f.
Fine(n, f) ==
    LET c  == Sgn(f) * (Abs(f) \div Grain)
        n1 == n + c
        f1 == f - c * Grain
    IN  IF n1 > 0 /\ f1 < 0 THEN <<n1 - 1, f1 + Grain>>
        ELSE IF n1 < 0 /\ f1 > 0 THEN <<n1 + 1, f1 - Grain>>
        ELSE <<n1, f1>>

FineOf(n) == <<n, 0>>
FineSgn(x) == IF x[1] # 0 THEN Sgn(x[1]) ELSE Sgn(x[2])
FineNeg(x) == <<-x[1], -x[2]>>
FineAbs(x) == <<Abs(x[1]), Abs(x[2])>>
FineAdd(a, b) == Fine(a[1] + b[1], a[2] + b[2])
FineSub(a, b) == Fine(a[1] - b[1], a[2] - b[2])
FineLess(a, b) == a[1] < b[1] \/ (a[1] = b[1] /\ a[2] < b[2])

\* The nearest whole number of units.
Whole(x) == x[1] + (IF 2 * Abs(x[2]) >= Grain THEN Sgn(x[2]) ELSE 0)

\* What a double holds that is no number: inf, -inf and nan.
Inf    == <<1, Grain>>
NegInf == <<-1, -Grain>>
NaN    == <<0, Grain>>
Finite(x) == Abs(x[2]) < Grain

\* n * f / s for n units and f parts, <<units, parts, parts / s>>, from
\* m = (n % s) * f / s and k = (n \div s) * f / Grain.
PartsSum(m, k) == <<k[1], k[2] + m[1], m[2]>>
PartsProduct(n, f, s) ==
    PartsSum(MulDivFloor(n % s, f, s), MulDivFloor(n \div s, f, Grain))

\* The product of sign sg from its parts: m1 units * units, m2 the
\* remainder of m1 in parts, m3 and m4 units * parts, m5 parts * parts.
\* The remainders are added in eighths where s is large.
FineSum(m1, m2, m3, m4, m5, sg, s, k) ==
    Fine(sg * (m1[1] + m3[1] + m4[1]),
         sg * (m2[1] + m3[2] + m4[2]
               + (m2[2] \div k + m3[3] \div k + m4[3] \div k + m5 \div k
                  + s \div (2 * k)) \div (s \div k)))
FineParts(m1, m3, m4, m5, sg, s) ==
    FineSum(m1, MulDivFloor(m1[2], Grain, s), m3, m4, m5, sg, s,
            IF s > 4 * 10^8 THEN 8 ELSE 1)

\* a * b / s for s > 0, rounded to the nearest part.
FineMul(a, b, s) ==
    IF b = <<0, 0>> \/ a = <<0, 0>> THEN <<0, 0>>
    ELSE FineParts(MulDivFloor(Abs(a[1]), Abs(b[1]), s),
                   PartsProduct(Abs(a[1]), Abs(b[2]), s),
                   PartsProduct(Abs(b[1]), Abs(a[2]), s),
                   MulDivFloor(Abs(a[2]), Abs(b[2]), Grain)[1],
                   FineSgn(a) * FineSgn(b), s)

\* x * n / d for whole n and d > 0.
FineScale(x, n, d) == FineMul(x, <<n, 0>>, d)

\* floor(sqrt(n)) by Newton's iteration from a guess x >= sqrt(n).
RECURSIVE NewtonSqrt(_, _)
NewtonSqrt(n, x) ==
    LET nx == (x + n \div x) \div 2
    IN  IF nx >= x THEN x ELSE NewtonSqrt(n, nx)
ISqrt(n) ==
    IF n = 0 THEN 0
    ELSE NewtonSqrt(n, IF n < 2^10 THEN 2^5
                       ELSE IF n < 2^16 THEN 2^8
                       ELSE IF n < 2^22 THEN 2^11
                       ELSE IF n < 2^27 THEN 11586
                       ELSE 46340)

RECURSIVE GCD(_, _)
GCD(a, b) == IF b = 0 THEN a ELSE GCD(b, a % b)

\* The solver's own arithmetic is in double-precision floats, whose step
\* lengths span many orders of magnitude.  A float is <<m, e>>, the number
\* m * 10^e with eight digits kept: 10^7 <= |m| < 10^8, or <<0, 0>>.
\* Every intermediate value stays below MaxInt.

\* The number of decimal digits of n, 1 <= n <= MaxInt.
Digits(n) ==
    IF n < 10^5
    THEN IF n < 100 THEN (IF n < 10 THEN 1 ELSE 2)
         ELSE IF n < 1000 THEN 3 ELSE IF n < 10^4 THEN 4 ELSE 5
    ELSE IF n < 10^7 THEN (IF n < 10^6 THEN 6 ELSE 7)
         ELSE IF n < 10^8 THEN 8 ELSE IF n < 10^9 THEN 9 ELSE 10

\* round(a / c) for c > 0 and |a| + c <= MaxInt.
RoundDiv(a, c) == Sgn(a) * ((Abs(a) + c \div 2) \div c)

\* m * 10^e with m of d digits, rounded to eight digits.
FlNormDigits(m, e, d) ==
    IF d <= 8 THEN <<m * 10^(8 - d), e + d - 8>>
    ELSE IF Abs(RoundDiv(m, 10^(d - 8))) = 10^8
         THEN <<Sgn(m) * 10^7, e + d - 7>>
         ELSE <<RoundDiv(m, 10^(d - 8)), e + d - 8>>
FlNorm(m, e) == IF m = 0 THEN <<0, 0>> ELSE FlNormDigits(m, e, Digits(Abs(m)))

FlOf(n) == FlNorm(n, 0)

\* a * b: with a = ah 10^4 + al and b = bh 10^4 + bl,
\* a b / 10^7 = 10 ah bh + (ah bl + al bh + al bl / 10^4) / 10^3.
MantissaProduct(ah, al, bh, bl) ==
    10 * ah * bh + (ah * bl + al * bh + (al * bl) \div 10^4 + 500) \div 1000
FlMul(a, b) ==
    IF a[1] = 0 \/ b[1] = 0 THEN <<0, 0>>
    ELSE FlNorm(Sgn(a[1]) * Sgn(b[1])
                  * MantissaProduct(Abs(a[1]) \div 10^4, Abs(a[1]) % 10^4,
                                    Abs(b[1]) \div 10^4, Abs(b[1]) % 10^4),
                a[2] + b[2] + 7)

\* round(x * 10^8 / c) for mantissas x and c, by long division: one digit
\* of the quotient and eight more, each from ten times the remainder.
MantissaQuotient(x, c) ==
    LET r0 == x % c
        r1 == (10 * r0) % c
        r2 == (10 * r1) % c
        r3 == (10 * r2) % c
        r4 == (10 * r3) % c
        r5 == (10 * r4) % c
        r6 == (10 * r5) % c
        r7 == (10 * r6) % c
    IN    10^8 * (x \div c)
        + 10^7 * ((10 * r0) \div c) + 10^6 * ((10 * r1) \div c)
        + 10^5 * ((10 * r2) \div c) + 10^4 * ((10 * r3) \div c)
        + 1000 * ((10 * r4) \div c) + 100 * ((10 * r5) \div c)
        + 10 * ((10 * r6) \div c) + (10 * r7 + c \div 2) \div c
\* a / b, b # 0
FlDiv(a, b) ==
    IF a[1] = 0 \/ b[1] = 0 THEN <<0, 0>>
    ELSE FlNorm(Sgn(a[1]) * Sgn(b[1]) * MantissaQuotient(Abs(a[1]), Abs(b[1])),
                a[2] - b[2] - 8)

FlScale(a, k) == IF a[1] = 0 THEN a ELSE <<a[1], a[2] + k>>    \* a * 10^k
\* hi + lo for hi[2] >= lo[2]: lo is shifted to one digit below hi's last.
FlAddAligned(hi, lo) ==
    IF lo[1] = 0 THEN hi
    ELSE IF hi[1] = 0 THEN lo
    ELSE IF hi[2] = lo[2] THEN FlNorm(hi[1] + lo[1], hi[2])
    ELSE IF hi[2] - lo[2] > 10 THEN hi
    ELSE FlNorm(hi[1] * 10 + RoundDiv(lo[1], 10^(hi[2] - lo[2] - 1)),
                hi[2] - 1)
FlAdd(a, b) == IF a[2] >= b[2] THEN FlAddAligned(a, b) ELSE FlAddAligned(b, a)
\* a < b, for a, b >= 0
FlLess(a, b) ==
    IF b[1] = 0 THEN FALSE
    ELSE IF a[1] = 0 THEN TRUE
    ELSE a[2] < b[2] \/ (a[2] = b[2] /\ a[1] < b[1])
FlMin(a, b) == IF FlLess(b, a) THEN b ELSE a
FlMax(a, b) == IF FlLess(a, b) THEN b ELSE a

\* round(a), for |a| <= MaxInt
FlRound(a) ==
    IF a[2] >= 0 THEN a[1] * 10^a[2]
    ELSE IF a[2] < -9 THEN 0
    ELSE RoundDiv(a[1], 10^(-a[2]))

\* (x + a / x) / 2, the step of Newton's iteration for the square root
FlSqrtStep(a, x) == FlMul(FlAdd(x, FlDiv(a, x)), <<5 * 10^7, -8>>)
\* sqrt(a), a >= 0: one step from the integer root of the mantissa, which
\* is right to 3e-4 of its value; the step squares that.
FlSqrt(a) ==
    IF a[1] = 0 THEN a
    ELSE IF a[2] % 2 = 1 THEN FlSqrtStep(a, FlNorm(ISqrt(a[1] * 10), (a[2] - 1) \div 2))
    ELSE FlSqrtStep(a, FlNorm(ISqrt(a[1]), a[2] \div 2))

FlSquare(a) == FlMul(a, a)
\* (4 x + a / x^4) / 5, the step of Newton's iteration for the fifth root
FlRoot5Step(a, x) ==
    FlMul(FlAdd(FlMul(x, <<4 * 10^7, -7>>), FlDiv(a, FlSquare(FlSquare(x)))),
          <<2 * 10^7, -8>>)
\* a ** (1/5), a > 0: Newton's iteration from a bound above the root, until
\* it no longer decreases.
RECURSIVE FlRoot5From(_, _, _)
FlRoot5From(a, x, k) ==
    LET nx == FlRoot5Step(a, x)
    IN  IF k = 0 \/ ~FlLess(nx, x) THEN x ELSE FlRoot5From(a, nx, k - 1)
\* a = f * 10^(5 q - r) with 0.1 <= f < 1 and 0 <= r < 5: the root is
\* below 10^q * 10^(-r/5) * f^(1/5).
FlRoot5(a) ==
    LET n  == a[2] + 8
        q  == IF n % 5 = 0 THEN n \div 5 ELSE n \div 5 + 1
        r  == 5 * q - n
        cr == <<10000001, 63095735, 39810718, 25118865, 15848932>>[r + 1]
        cf == IF a[1] < 2 * 10^7 THEN <<72477967, -8>>
              ELSE IF a[1] < 4 * 10^7 THEN <<83255321, -8>>
              ELSE IF a[1] < 7 * 10^7 THEN <<93114993, -8>>
              ELSE <<10^7, -7>>
    IN  FlRoot5From(a, FlMul(<<cr, q - (IF r = 0 THEN 7 ELSE 8)>>, cf), 8)

\* A time is a double, kept as [ms, off]: ms thousandths of a second and off
\* units of 2^-60 / 125 s, in which a thousandth is 2^57 and the doubles
\* from 2^(j-8) s to 2^(j-7) s are the multiples of 125 * 2^j.
RECURSIVE BinExp(_, _, _)
BinExp(ms, off, j) ==
    IF ms * 128 > 1000 * 2^j \/ (ms * 128 = 1000 * 2^j /\ off >= 0)
    THEN BinExp(ms, off, j + 1)
    ELSE j
\* 2^n mod 125
RECURSIVE Pow2Mod(_)
Pow2Mod(n) ==
    IF n = 0 THEN 1
    ELSE IF n % 2 = 0 THEN (Pow2Mod(n \div 2) * Pow2Mod(n \div 2)) % 125
    ELSE (2 * Pow2Mod(n - 1)) % 125
\* The off of the double nearest to ms thousandths and off units, ties to
\* the even multiple.
Nearest(ms, off) ==
    LET j     == BinExp(ms, off, 0)
        grain == 125 * 2^j
        r2    == (2^(j + 1) * (((ms % 125) * Pow2Mod(56 - j)) % 125) + off)
                     % (2 * grain)
        r     == r2 % grain
    IN  IF 2 * r < grain \/ (2 * r = grain /\ r2 < grain)
        THEN off - r
        ELSE off - r + grain
\* The double a decimal literal of ms thousandths denotes.
AsDouble(ms) == [ms |-> ms, off |-> Nearest(ms, 0)]
\* a + b and a < b of doubles a, b >= 0
FloatAdd(a, b) ==
    [ms |-> a.ms + b.ms, off |-> Nearest(a.ms + b.ms, a.off + b.off)]
FloatLess(a, b) == a.ms < b.ms \/ (a.ms = b.ms /\ a.off < b.off)

\* 3-vectors and 4-vectors are sequences.  FineV(v) is the vector of the
\* whole numbers v, WholeV(x) the vector x to the nearest unit.
FineV(v)  == SubSeq([i \in DOMAIN v |-> FineOf(v[i])], 1, Len(v))
WholeV(x) == SubSeq([i \in DOMAIN x |-> Whole(x[i])], 1, Len(x))
VAdd(a, b) == [i \in DOMAIN a |-> FineAdd(a[i], b[i])]
VSub(a, b) == [i \in DOMAIN a |-> FineSub(a[i], b[i])]
Zero3 == <<0, 0, 0>>

\* np.cross of a [unit A] and b [unit B], each product divided by `scale`.
cross(a, b, scale) ==
    << FineSub(FineMul(a[2], b[3], scale), FineMul(a[3], b[2], scale)),
       FineSub(FineMul(a[3], b[1], scale), FineMul(a[1], b[3], scale)),
       FineSub(FineMul(a[1], b[2], scale), FineMul(a[2], b[1], scale)) >>

\* M @ v for a 3x3 matrix M, each product divided by `scale`.
MatVec3(M, v, scale) ==
    [i \in 1..3 |-> FineAdd(FineAdd(FineMul(M[i][1], v[1], scale),
                                     FineMul(M[i][2], v[2], scale)),
                            FineMul(M[i][3], v[3], scale))]


---------------------------------------------------------------------------
(* Params (cell 4).  mass and inertia are the fields a configuration       *)
(* overrides in this model; the other fields keep the source's defaults.   *)

QS == 10^8                       \* quaternion components count 1e-8

default_mass == 1352             \* 1.352 kg
default_inertia == << <<980, 0, 0>>, <<0, 1002, 0>>, <<0, 0, 1860>> >>
rotor_diameter == 2540           \* 10 * 0.0254 m, in 1e-4 m
static_thrust_coefficient == 14553   \* 0.14553, in 1e-5
static_torque_coefficient == 1047    \* 0.01047, in 1e-5
arm_length == 1907               \* 0.3814 / 2.0 m, in 1e-4 m
g == 98066500                    \* 9.80665 m/s^2, in 1e-7 m/s^2
rho == 1225                      \* 1.225 kg/m^3, in 1e-3 kg/m^3
Pi == 3141593                    \* np.pi, in 1e-6

\* rho * static_coefficient * rotor_diameter^4 / (4 pi^2), in 1e-11 N s^2.
rotor_model(static_coefficient) ==
    LET D2  == FxDiv(rotor_diameter * rotor_diameter, 100)     \* 1e-6 m^2
        D4  == FxMulDiv(D2, D2, 100)                            \* 1e-10 m^4
        num == FxMulDiv(rho * static_coefficient, D4, 10^6)     \* 1e-12
        pi2 == FxMulDiv(Pi, Pi, 10^4)                           \* 1e-8
    IN  FxMulDiv(num, 2500000, pi2)

k_thrust == rotor_model(static_thrust_coefficient)
k_torque == rotor_model(static_torque_coefficient)

---------------------------------------------------------------------------
(* sym.Rot3 (symforce): a quaternion in xyzw storage.                      *)

\* A product of two quaternion components, in 1e-9.
QProd(a, b) == FxMulDiv(a, b, 10^7)

RS == QS                         \* rotation-matrix entries count 1e-8

\* 2 (a b + c d) and 2 (a b - c d) for quaternion components, in 1/RS.
TwiceSum(a, b, c, d) ==
    FineScale(FineAdd(FineMul(a, b, QS), FineMul(c, d, QS)), 2, 1)
TwiceDiff(a, b, c, d) ==
    FineScale(FineSub(FineMul(a, b, QS), FineMul(c, d, QS)), 2, 1)

\* The rotation matrix of quaternion q, entries in 1/RS.
RotationMatrix(q) ==
    [i \in 1..3 |-> [j \in 1..3 |->
        LET qx == q[1]
            qy == q[2]
            qz == q[3]
            qw == q[4]
        IN  CASE i = 1 /\ j = 1 ->
                     FineSub(FineOf(RS), TwiceSum(qy, qy, qz, qz))
              [] i = 1 /\ j = 2 -> TwiceDiff(qx, qy, qz, qw)
              [] i = 1 /\ j = 3 -> TwiceSum(qx, qz, qy, qw)
              [] i = 2 /\ j = 1 -> TwiceSum(qx, qy, qz, qw)
              [] i = 2 /\ j = 2 ->
                     FineSub(FineOf(RS), TwiceSum(qx, qx, qz, qz))
              [] i = 2 /\ j = 3 -> TwiceDiff(qy, qz, qx, qw)
              [] i = 3 /\ j = 1 -> TwiceDiff(qx, qz, qy, qw)
              [] i = 3 /\ j = 2 -> TwiceSum(qy, qz, qx, qw)
              [] OTHER ->
                     FineSub(FineOf(RS), TwiceSum(qx, qx, qy, qy))]]

\* R * v: the vector v rotated from the body frame to the world frame.
Rot3Mul(q, v) == MatVec3(RotationMatrix(q), v, RS)

\* The same with one sign of G changed: G[0][2] = +q1.
dRot3_signflip(R, omega) ==
    LET q0 == R[1]
        q1 == R[2]
        q2 == R[3]
        q3 == R[4]
        G  == << << q3,  q2,  q1, FineNeg(q0)>>,
                 <<FineNeg(q2),  q3,  q0, FineNeg(q1)>>,
                 << q1, FineNeg(q0),  q3, FineNeg(q2)>> >>
    IN  [j \in 1..4 |->
            FineScale(FineAdd(FineAdd(FineMul(G[1][j], omega[1], QS),
                                      FineMul(G[2][j], omega[2], QS)),
                              FineMul(G[3][j], omega[3], QS)), 1, 2)]

\* quat_dot = (G.T @ omega) / 2, in 1e-6 /s.
dRot3(R, omega) ==
    LET q0 == R[1]
        q1 == R[2]
        q2 == R[3]
        q3 == R[4]
        G  == << << q3,  q2, FineNeg(q1), FineNeg(q0)>>,
                 <<FineNeg(q2),  q3,  q0, FineNeg(q1)>>,
                 << q1, FineNeg(q0),  q3, FineNeg(q2)>> >>
    IN  [j \in 1..4 |->
            FineScale(FineAdd(FineAdd(FineMul(G[1][j], omega[1], QS),
                                      FineMul(G[2][j], omega[2], QS)),
                              FineMul(G[3][j], omega[3], QS)), 1, 2)]

---------------------------------------------------------------------------
(* QuadrotorState and its packing (quadrotor.dynamics).                    *)

QuadrotorState(pos, ori, vel, angvel) ==
    [position |-> pos, orientation |-> ori, velocity |-> vel,
     angular_velocity |-> angvel]

\* |q|^2, in 1e-9.
\* A state of whole numbers of units.
State(pos, ori, vel, angvel) ==
    QuadrotorState(FineV(pos), FineV(ori), FineV(vel), FineV(angvel))

Norm2(q) == QProd(q[1], q[1]) + QProd(q[2], q[2]) + QProd(q[3], q[3])
            + QProd(q[4], q[4])

\* position(3), velocity(3), orientation(4), angular_velocity(3).
to_state_vector(s) ==
    s.position \o s.velocity \o s.orientation \o s.angular_velocity

\* The fields taken from the vector in the order the dataclass declares
\* them: position, orientation, velocity, angular_velocity.
from_state_vector_fieldorder(v) ==
    QuadrotorState(SubSeq(v, 1, 3), SubSeq(v, 4, 7),
                   SubSeq(v, 8, 10), SubSeq(v, 11, 13))

\* The state of a flat vector: its fields taken as they are.  The printed
\* state of line 349 has |q|^2 = 1 - 4e-15 after 400 solves: the quaternion
\* of the integrator is stored as it comes, not renormalized.
from_state_vector(v) ==
    QuadrotorState(SubSeq(v, 1, 3), SubSeq(v, 7, 10),
                   SubSeq(v, 4, 6), SubSeq(v, 11, 13))

---------------------------------------------------------------------------
(* FullQuadrotorDynamics (cell 5).                                         *)

\* [F1, F2, F3, F4] = rotor_rates * rotor_rates * k_thrust, in 1e-7 N.
rotor_thrust_model(rotor_rates) ==
    [i \in DOMAIN rotor_rates |->
        FxMulDiv(FxMulDiv(rotor_rates[i], rotor_rates[i], 10^4),
                 k_thrust, 10^4)]

MS == 2 * 10^6                   \* mixing-matrix entries count 1/2000000

\* The matrix with the signs of the roll and pitch rows exchanged.
mixing_matrix_mirrored ==
    LET L   == arm_length * 200
        m_t == FxMulDiv(k_torque, MS, k_thrust)
        one == MS
        signs == << << 1,  1,  1,  1>>,
                    <<-1,  0,  1,  0>>,
                    << 0,  1,  0, -1>>,
                    << 1, -1,  1, -1>> >>
        size  == <<one, L, L, m_t>>
    IN  [i \in 1..4 |-> [j \in 1..4 |-> signs[i][j] * size[i]]]

\* The mixing matrix of step, entries in 1/MS:
\*   [[1, 1, 1, 1], [0, L, 0, -L], [-L, 0, L, 0], [m_t, -m_t, m_t, -m_t]],
\* row i being the row of signs times one, L, L or m_t.
mixing_matrix ==
    LET L   == arm_length * 200
        m_t == FxMulDiv(k_torque, MS, k_thrust)
        one == MS
        signs == << << 1,  1,  1,  1>>,
                    << 0,  1,  0, -1>>,
                    <<-1,  0,  1,  0>>,
                    << 1, -1,  1, -1>> >>
        size  == <<one, L, L, m_t>>
    IN  [i \in 1..4 |-> [j \in 1..4 |-> signs[i][j] * size[i]]]

\* np.dot of one matrix row [1/MS] and the thrusts.
RowDot(row, F) ==
      FxMulDiv(row[1], F[1], MS) + FxMulDiv(row[2], F[2], MS)
    + FxMulDiv(row[3], F[3], MS) + FxMulDiv(row[4], F[4], MS)

\* u = mixing_matrix @ [F1, F2, F3, F4]; u1 = u[0], u2 = u[1:4].
MixWith(M, F) ==
    [u1 |-> RowDot(M[1], F),
     u2 |-> <<RowDot(M[2], F), RowDot(M[3], F), RowDot(M[4], F)>>]
Mix(F) == MixWith(mixing_matrix, F)

\* np.linalg.det of a 3x3 matrix.
Det3(M) ==
      M[1][1] * (M[2][2] * M[3][3] - M[2][3] * M[3][2])
    - M[1][2] * (M[2][1] * M[3][3] - M[2][3] * M[3][1])
    + M[1][3] * (M[2][1] * M[3][2] - M[2][2] * M[3][1])

Singular(M) == Det3(M) = 0

\* np.linalg.inv(I) for inertia in 1e-5 kg m^2: adj(I) / det(I), in 1e-4.
\* Each cofactor and the determinant are first divided by their gcd.
Inv3(M) ==
    LET d == Det3(M)
        C(i, j) ==
            LET r1 == (i % 3) + 1
                r2 == ((i + 1) % 3) + 1
                c1 == (j % 3) + 1
                c2 == ((j + 1) % 3) + 1
            IN  M[r1][c1] * M[r2][c2] - M[r1][c2] * M[r2][c1]
        Q(n) == LET gg == GCD(Abs(d), Abs(n))
                IN  FineScale(FineOf(Sgn(d) * Sgn(n) * (Abs(n) \div gg)),
                              10^9, Abs(d) \div gg)
    IN  [i \in 1..3 |-> [j \in 1..3 |-> Q(C(j, i))]]

\* x / mass as numpy divides: by zero it is nan for x = 0 and inf of the
\* sign of x otherwise, with a warning and no exception.
OverMass(x, mass) ==
    IF mass # 0 THEN FineScale(x, 1000, mass)
    ELSE IF x = <<0, 0>> THEN NaN
    ELSE IF FineSgn(x) > 0 THEN Inf ELSE NegInf

\* acceleration of line 213: (gravity + R * thrust) / p.mass.
accel_of(params, R, u1) ==
    LET total == SubSeq(VAdd(FineV(<<0, 0, -g>>),
                             Rot3Mul(R, FineV(<<0, 0, u1>>))), 1, 3)
    IN  SubSeq([i \in 1..3 |-> OverMass(total[i], params.mass)], 1, 3)

\* The torque rotated into the world frame (the M of line 216).
body_torque_rotated(R, u2) == Rot3Mul(R, u2)

\* The torque the Euler equation is given (line 222: u2, not R * u2).
body_torque(R, u2) == u2

\* A matrix of whole numbers as a matrix of numbers.
FineM(M) == [i \in DOMAIN M |-> FineV(M[i])]

\* I @ w of line 222, in 1e-8 N m s, as a tuple.
AngularMomentum(I, w) ==
    SubSeq(MatVec3(FineM(I), w, 1000), 1, 3)

\* cross(w, I @ w) of line 222, in 1e-7 N m.
gyroscopic(I, w) == cross(w, AngularMomentum(I, w), 10^7)

\* angular acceleration of line 222: inv(I) @ (u2 - cross(w, I @ w)).
angular_accel_of(params, R, w, u2) ==
    LET I   == params.inertia
        M   == body_torque(R, FineV(u2))
        tau == VSub(M, gyroscopic(I, w))                  \* 1e-7 N m
    IN  MatVec3(Inv3(I), SubSeq(tau, 1, 3), 10^5)

\* The rates with those of position and velocity exchanged.
state_derivative_swapped(params, tt, s, u1, u2) ==
    QuadrotorState(accel_of(params, s.orientation, u1),
                   dRot3(s.orientation, s.angular_velocity),
                   s.velocity,
                   angular_accel_of(params, s.orientation,
                                    s.angular_velocity, u2))

\* state_derivative(t, state, u1, u2): the rates of the state's fields.
state_derivative(params, tt, s, u1, u2) ==
    QuadrotorState(s.velocity,
                   dRot3(s.orientation, s.angular_velocity),
                   accel_of(params, s.orientation, u1),
                   angular_accel_of(params, s.orientation,
                                    s.angular_velocity, u2))

\* The closure of step: unpack, state_derivative with the captured u, pack.
state_derivative_wrapped(params, cu, tt, sv) ==
    to_state_vector(
        state_derivative(params, tt, from_state_vector(sv), cu.u1, cu.u2))

---------------------------------------------------------------------------
(* Controllers and trajectory (cell 6).                                    *)

\* np.sin(x) for x in 1e-4 rad, in 1e-4: x is brought into [-pi, pi) and
\* the Taylor series is summed.
RECURSIVE SinTerms(_, _, _, _)
SinTerms(term, x2, k, last) ==
    IF k > last THEN 0
    ELSE term + SinTerms(-FxDiv(FxMulDiv(term, x2, 10^4),
                                (2 * k + 2) * (2 * k + 3)),
                         x2, k + 1, last)
FxSin(x) ==
    LET pi == FxDiv(Pi, 100)
        xr == ((x + pi) % (2 * pi)) - pi
    IN  SinTerms(xr, FxMulDiv(xr, xr, 10^4), 0, 7)

Four(r) == <<r, r, r, r>>

\* The all-equal rotor rate at which the mixed thrust is mass * g.
HoverRefine(weight, r, thrust) ==
    IF r = 0 THEN 0 ELSE r + FxMulDiv(weight - thrust, r, 2 * thrust)
HoverNear(weight, r) ==
    HoverRefine(weight, r, Mix(rotor_thrust_model(Four(r))).u1)
HoverGuess(weight) ==
    10 * ISqrt(FxMulDiv(weight \div 4, 1000, k_thrust \div 1000))
HoverRate(mass) ==
    HoverNear(FxMulDiv(g, mass, 1000), HoverGuess(FxMulDiv(g, mass, 1000)))

\* EmptyTrajectory.eval: TrajectoryState(0.0, position=np.zeros(3)).
TrajectoryEval(tt) == [t |-> 0, position |-> Zero3]

TestControllerStep(tt) == <<38000, 34000, 38000, 34000>>

BouncyControllerStep(tt) ==
    LET wave     == FxSin(FxMulDiv(tt.ms, 2 * 2 * Pi, 10^5) + FxDiv(Pi, 200))
        strength == 30000
        offset   == -6000
    IN  Four(36000 + FxMulDiv(wave, strength, 10^4) + offset)

MoveAndStopControllerStep(tt) ==
    IF FloatLess(tt, AsDouble(1000)) THEN <<36000, 35900, 35800, 35900>>
    ELSE IF FloatLess(tt, AsDouble(2500)) THEN <<37000, 37200, 37400, 37200>>
    ELSE Four(36300)

\* The policies a run may be given.  The first three are the source's; the
\* others are the scenarios of sections 7 and 8 of the specification: all
\* rotors at the hover rate, all rotors stopped, a command of three rates,
\* and a command that grows to five rates after two well-formed ones.
Controllers == {"TestController", "BouncyController", "MoveAndStopController",
                "HoverController", "ZeroController", "ShortController",
                "LongController"}

ControllerStep(name, params, tt) ==
    CASE name = "TestController"        -> TestControllerStep(tt)
      [] name = "BouncyController"      -> BouncyControllerStep(tt)
      [] name = "MoveAndStopController" -> MoveAndStopControllerStep(tt)
      [] name = "HoverController"       -> Four(HoverRate(params.mass))
      [] name = "ZeroController"        -> Four(0)
      [] name = "ShortController"       -> <<36100, 36100, 36100>>
      [] name = "LongController"        ->
             IF FloatLess(tt, AsDouble(20)) THEN Four(36100)
             ELSE <<36100, 36100, 36100, 36100, 36100>>

---------------------------------------------------------------------------
(* The run (cells 8 and 9, quadrotor.simulator).                           *)

dt == 10                         \* SimulatorBase(dt=0.01), in 1e-3 s

\* The longest t_total, in multiples of dt.  At 10 the run takes 11
\* macro-steps: dt added ten times is 0.09999999999999999 < 0.1.
MaxSteps == 10

level   == <<0, 0, 0, QS>>       \* Rot3.from_yaw_pitch_roll(0, 0, 0)
tilted  == <<2 * 10^7, 4 * 10^7, 4 * 10^7, 8 * 10^7>>
rolled  == <<6 * 10^7, 0, 0, 8 * 10^7>>
pitched == <<0, 6 * 10^7, 0, 8 * 10^7>>
yawed   == <<0, 0, 6 * 10^7, 8 * 10^7>>
flipped == <<QS, 0, 0, 0>>
\* (1, 2, 3, 4) / sqrt(30), rounded
skewed  == <<18257419, 36514837, 54772256, 73029674>>
Orientations == {level, tilted, rolled, pitched, yawed, flipped, skewed}

spin   == <<0, 0, 8 * 10^6>>             \* 8 rad/s about body Z
whirl  == <<0, 0, 130 * 10^6>>           \* 130 rad/s about body Z
tumble == <<10^6, 2 * 10^6, -15 * 10^5>>

singular_inertia == << <<980, 0, 0>>, <<0, 1002, 0>>, <<0, 0, 0>> >>
Masses   == {0, 1000, default_mass}
Inertias == {default_inertia, singular_inertia}

InitialStates ==
    {State(Zero3, o, Zero3, w) : o \in {level, tilted},
                                 w \in {Zero3, spin, whirl}}
    \cup {State(Zero3, skewed, Zero3, Zero3)}
TotalTimes == {5, 2 * dt + 5, MaxSteps * dt}

NoCommand == <<>>
NoU == [u1 |-> 0, u2 |-> Zero3]
NoVec == <<>>
\* The values held before anything is assigned.
NoState == State(Zero3, <<0, 0, 0, 0>>, Zero3, Zero3)
NoReference == [t |-> -1, position |-> Zero3]
NoInput == [state |-> NoState, rates |-> NoCommand]

FnIdle ==
    /\ fpc = "idle" /\ fin = NoInput /\ fu = NoU /\ fd = NoState
    /\ fvec = NoVec /\ fdvec = NoVec /\ fback = NoState

Init ==
    /\ p \in [mass : Masses, inertia : Inertias]
    /\ pc = "construct"
    /\ t = AsDouble(0)
    /\ t_total \in TotalTimes
    /\ initial_state \in InitialStates
    /\ state = NoState
    /\ controller \in Controllers
    /\ reference = NoReference
    /\ cmd = NoCommand
    /\ consulted = 0
    /\ u = NoU
    /\ y = NoVec
    /\ h_abs = 0
    /\ step_rejected = FALSE
    /\ nfev = 0
    /\ ts = 0
    /\ sub = 0
    /\ ks = <<>>
    /\ evalU = NoU
    /\ evalY = NoVec
    /\ evalD = NoVec
    /\ output = <<>>
    /\ failure = "none"
    /\ FnIdle

\* Params(), FullQuadrotorDynamics(), SimulatorBase(...): no field is checked.
Construct ==
    /\ pc = "construct"
    /\ state' = initial_state
    /\ t' = AsDouble(0)
    /\ pc' = "loop"
    /\ UNCHANGED <<p, t_total, initial_state, controller, reference, cmd,
                   consulted, u, y, h_abs, step_rejected, nfev, ts, sub,
                   ks, evalU, evalY, evalD, output,
                   failure, fnvars>>

\* simulate: while self.t < self.t_total.
LoopTest ==
    /\ pc = "loop"
    /\ pc' = IF FloatLess(t, AsDouble(t_total)) THEN "trajectory" ELSE "done"
    /\ consulted' = 0
    /\ UNCHANGED <<p, t, t_total, initial_state, state, controller, reference,
                   cmd, u, y, h_abs, step_rejected, nfev, ts, sub,
                   ks, evalU, evalY, evalD, output, failure,
                   fnvars>>

\* (1) trajectory.eval
TrajectoryStep ==
    /\ pc = "trajectory"
    /\ reference' = TrajectoryEval(t)
    /\ pc' = "controller"
    /\ UNCHANGED <<p, t, t_total, initial_state, state, controller, cmd,
                   consulted, u, y, h_abs, step_rejected, nfev, ts, sub,
                   ks, evalU, evalY, evalD, output,
                   failure, fnvars>>

\* (2) controller.step
ControlStep ==
    /\ pc = "controller"
    /\ cmd' = ControllerStep(controller, p, t)
    /\ consulted' = consulted + 1
    /\ pc' = "step"
    /\ UNCHANGED <<p, t, t_total, initial_state, state, controller, reference,
                   u, y, h_abs, step_rejected, nfev, ts, sub,
                   ks, evalU, evalY, evalD, output, failure,
                   fnvars>>

\* A step that takes the first four rates of whatever it is given, absent
\* ones as zero, and goes on to mix and integrate.
StepMix_lenient ==
    /\ pc = "step"
    /\ u' = Mix(rotor_thrust_model(
                [i \in 1..4 |-> IF i <= Len(cmd) THEN cmd[i] ELSE 0]))
    /\ y' = to_state_vector(state)
    /\ sub' = 0
    /\ ks' = <<>>
    /\ h_abs' = 0
    /\ step_rejected' = FALSE
    /\ nfev' = 0
    /\ ts' = 0
    /\ pc' = "solve"
    /\ UNCHANGED <<p, t, t_total, initial_state, state, controller, reference,
                   cmd, consulted, evalU, evalY, evalD, output, failure,
                   fnvars>>

\* (3) step, lines 159-195: unpack the four thrusts, mix, pack the state.
StepMix ==
    /\ pc = "step"
    /\ IF Len(cmd) # 4
       THEN /\ failure' = "ValueError"
            /\ pc' = "aborted"
            /\ UNCHANGED <<u, y, sub, ks, h_abs, step_rejected, nfev, ts>>
       ELSE /\ u' = Mix(rotor_thrust_model(cmd))
            /\ y' = to_state_vector(state)
            /\ sub' = 0
            /\ ks' = <<>>
            /\ h_abs' = 0
            /\ step_rejected' = FALSE
            /\ nfev' = 0
            /\ ts' = 0
            /\ pc' = "solve"
            /\ UNCHANGED failure
    /\ UNCHANGED <<p, t, t_total, initial_state, state, controller, reference,
                   cmd, consulted, evalU, evalY, evalD, output, fnvars>>

\* A closure that recomputes its inputs: nothing is held after the first
\* evaluation.
closure_u_unheld(cu, k) == IF k = 0 THEN cu ELSE NoU

\* The (u1, u2) the closure hands to its k-th evaluation: the captured ones.
closure_u(cu, k) == cu

\* sp.integrate.solve_ivp with its defaults: the explicit Runge-Kutta pair
\* of Dormand and Prince, RK45.  A[s] are the weights of the slopes
\* K[1..s-1] in the point of stage s, B the weights of K[1..6] in the step,
\* each weight a fraction <<numerator, denominator>>.
RK45_A ==
    << <<>>,
       << <<1, 5>> >>,
       << <<3, 40>>, <<9, 40>> >>,
       << <<44, 45>>, <<-56, 15>>, <<32, 9>> >>,
       << <<19372, 6561>>, <<-25360, 2187>>, <<64448, 6561>>,
          <<-212, 729>> >>,
       << <<9017, 3168>>, <<-355, 33>>, <<46732, 5247>>, <<49, 176>>,
          <<-5103, 18656>> >> >>
RK45_B ==
    << <<35, 384>>, <<0, 1>>, <<500, 1113>>, <<125, 192>>, <<-2187, 6784>>,
       <<11, 84>> >>

\* The vector counts a quaternion component in 1e-8 and the derivative
\* vector a quaternion rate in 1e-6 /s: a rate of one is PerSecond units of
\* y[i] in a second.
PerSecond(i) == IF i \in 7..10 THEN 100 ELSE 1

\* A number as a float.
FlOfFine(x) == FlAdd(FlOf(x[1]), FlScale(FlOf(x[2]), -7))

\* x * h * 10^k for a float h: the mantissa of h and its power of ten are
\* applied one after the other.
TimesFl(x, h, k) ==
    LET n == -(h[2] + k)
    IN  IF n <= 9 THEN FineScale(x, h[1], 10^n)
        ELSE FineScale(FineScale(x, h[1], 10^9), 1, 10^(n - 9))

\* A vector with a component that is no number, and one with a nan.
NonFinite(v) == \E i \in DOMAIN v : ~Finite(v[i])
HasNaN(v) == \E i \in DOMAIN v : v[i] = NaN

\* The tolerances solve_ivp is left with, rtol = 1e-3 and atol = 1e-6, as
\* (atol + |y[i]| * rtol) / rtol in the unit of y[i]: atol is 10 units of
\* a position or a velocity, 100 of a quaternion component and 1 of a rate.
scale(yv, i) ==
    FlAdd(FlOf(1000 * (IF i <= 6 THEN 10 ELSE IF i <= 10 THEN 100 ELSE 1)),
          FlOfFine(FineAbs(yv[i])))

\* A vector of y's kind and a vector of slopes as floats, in y's units and
\* y's units per second.
Values(v) == [i \in 1..13 |-> FlOfFine(v[i])]
Slopes(f) == [i \in 1..13 |-> FlMul(FlOfFine(f[i]), FlOf(PerSecond(i)))]

\* (v[i] / scale[i]) ** 2, v a vector of floats
Sq(v, yv, i) ==
    FlSquare(FlScale(FlDiv(v[i], scale(yv, i)), 3))

\* The sum of Sq over the components lo..hi, by halves.
RECURSIVE SumSq(_, _, _, _)
SumSq(v, yv, lo, hi) ==
    IF lo = hi THEN Sq(v, yv, lo)
    ELSE FlAdd(SumSq(v, yv, lo, (lo + hi) \div 2),
               SumSq(v, yv, (lo + hi) \div 2 + 1, hi))

\* norm(v / scale): the root mean square over the 13 components
norm(v, yv) == FlSqrt(FlDiv(SumSq(v, yv, 1, 13), FlOf(13)))

Interval == dt * 10^6                 \* t_span = (0, self.dt), in 1e-9 s
interval_length == <<dt * 10^7, -10>>  \* the same as a float, in s

\* select_initial_step, first half: the length h0 of the trial Euler step,
\* in s, from the vector y0 and its derivative f0.  With an inf in f0 (and
\* no nan) d1 is inf and h0 = 0.01 * d0 / d1 is 0.
initial_h0(y0, f0) ==
    IF NonFinite(f0) THEN <<0, 0>>
    ELSE
    LET d0 == norm(Values(y0), y0)
        d1 == norm(Slopes(f0), y0)
        h0 == IF FlLess(d0, <<10^7, -12>>) \/ FlLess(d1, <<10^7, -12>>)
              THEN <<10^7, -13>>
              ELSE FlDiv(FlScale(d0, -2), d1)
    IN  FlMin(h0, interval_length)

\* y0 + h0 * f0, where select_initial_step evaluates the function again;
\* 0 * inf is nan.
ProbePoint(y0, f0, h0) ==
    [i \in 1..13 |->
        IF ~Finite(f0[i]) THEN NaN
        ELSE IF h0[1] = 0 THEN y0[i]
        ELSE FineAdd(y0[i],
                     TimesFl(f0[i], h0, IF PerSecond(i) = 100 THEN 2 ELSE 0))]

\* select_initial_step, second half: the first step length, in 1e-9 s,
\* from the derivative f1 found at the trial point.  RK45's error
\* estimator has order 4, hence the fifth root.  With d1 = inf h1 is 0.
select_initial_step(y0, f0, f1, h0) ==
    IF NonFinite(f0) THEN 0
    ELSE
    LET d1 == norm(Slopes(f0), y0)
        d2 == FlDiv(norm(Slopes(VSub(f1, f0)), y0), h0)
        h1 == IF ~FlLess(<<10^7, -22>>, d1) /\ ~FlLess(<<10^7, -22>>, d2)
              THEN FlMax(<<10^7, -13>>, FlScale(h0, -3))
              ELSE FlRoot5(FlDiv(<<10^7, -9>>, FlMax(d1, d2)))
        bound == FlMin(FlScale(h0, 2), interval_length)
    IN  IF FlLess(h1, bound) THEN FlRound(FlScale(h1, 9))
        ELSE FlRound(FlScale(bound, 9))

\* Component i of K[:j].T @ row[:j], in four times the unit of K[i]: the
\* terms of a row are up to twelve times the slopes and cancel.
RECURSIVE WeightedSlope(_, _, _, _)
WeightedSlope(K, row, i, j) ==
    IF j = 0 THEN <<0, 0>>
    ELSE FineAdd(FineScale(K[j][i], row[j][1], 4 * row[j][2]),
                 WeightedSlope(K, row, i, j - 1))

\* The same where a slope is no number: a nan, an inf with the weight 0 or
\* infs of both signs give nan, and infs of one sign that inf.
Signs(K, row, i) ==
    {IF K[j][i] = NaN \/ row[j][1] = 0 THEN 0
     ELSE FineSgn(K[j][i]) * Sgn(row[j][1]) :
        j \in {k \in 1..Len(row) : ~Finite(K[k][i])}}
WeightedInf(K, row, i) ==
    IF 0 \in Signs(K, row, i) \/ Signs(K, row, i) = {1, -1} THEN NaN
    ELSE IF Signs(K, row, i) = {1} THEN Inf ELSE NegInf

\* y + h * (K.T @ row) for a solver step of length h, in 1e-9 s.
OdeSubstep(yv, K, row, h) ==
    SubSeq([i \in 1..13 |->
               IF \E j \in 1..Len(row) : ~Finite(K[j][i])
               THEN WeightedInf(K, row, i)
               ELSE FineAdd(yv[i],
                            FineScale(WeightedSlope(K, row, i, Len(row)),
                                      4 * h, 10^9 \div PerSecond(i)))],
           1, 13)

\* The point of the next evaluation of a step of length h, K holding the
\* slopes found so far in it: the point of stage Len(K) + 1, or, with all
\* six slopes, the end of the step.
EvalPoint(yv, K, h) ==
    IF Len(K) < 6 THEN OdeSubstep(yv, K, RK45_A[Len(K) + 1], h)
    ELSE OdeSubstep(yv, K, RK45_B, h)

\* E, the weights of K[1..7] in the error estimate: the difference of the
\* step's fifth-order and fourth-order results.
RK45_E ==
    << <<-71, 57600>>, <<0, 1>>, <<71, 16695>>, <<-71, 1920>>,
       <<17253, 339200>>, <<-22, 525>>, <<1, 40>> >>

\* Component i of K.T @ E, in the unit of K[i].  The weights sum to zero,
\* so each slope enters by its difference from the first.
RECURSIVE ErrorSlope(_, _, _)
ErrorSlope(K, i, j) ==
    IF j = 1 THEN <<0, 0>>
    ELSE FineAdd(FineScale(FineSub(K[j][i], K[1][i]),
                           RK45_E[j][1], RK45_E[j][2]),
                 ErrorSlope(K, i, j - 1))

\* _estimate_error: (K.T @ E) * h for the step length h in 1e-9 s, as
\* floats in the units of y.
estimate_error(K, h) ==
    [i \in 1..13 |->
        FlScale(FlMul(FlOfFine(ErrorSlope(K, i, 7)), FlOf(h)),
                IF PerSecond(i) = 100 THEN -7 ELSE -9)]

\* The larger in magnitude of y[i] and y_new[i], component by component.
Larger(yv, y_new) ==
    [i \in 1..13 |-> IF FineLess(FineAbs(yv[i]), FineAbs(y_new[i]))
                     THEN y_new[i] ELSE yv[i]]

\* _estimate_error_norm: norm(estimate_error / scale) with
\* scale = atol + max(|y|, |y_new|) * rtol.
estimate_error_norm(K, h, yv, y_new) ==
    norm(estimate_error(K, h), Larger(yv, y_new))

MAX_FACTOR == 10
MIN_FACTOR == <<2 * 10^7, -8>>       \* 0.2
SAFETY     == <<9 * 10^7, -8>>       \* 0.9
One        == <<10^7, -7>>

\* SAFETY * error_norm ** ERROR_ESTIMATOR_EXPONENT, the exponent -1/5
safe_factor(error_norm) ==
    FlMul(SAFETY, FlRoot5(FlDiv(One, error_norm)))

\* The length of the step after an accepted one of length h: h times
\* min(MAX_FACTOR, safe_factor), and no longer than h when the step had
\* been rejected before.
accepted_h_abs(h, error_norm, rejected) ==
    LET most   == IF rejected THEN One ELSE FlOf(MAX_FACTOR)
        factor == IF error_norm[1] = 0 THEN FlOf(MAX_FACTOR)
                  ELSE FlMin(FlOf(MAX_FACTOR), safe_factor(error_norm))
    IN  FlRound(FlMul(FlMin(most, factor), FlOf(h)))

\* The length a rejected step of length h is tried again with:
\* h * max(MIN_FACTOR, safe_factor).
rejected_h_abs(h, error_norm) ==
    FlRound(FlMul(FlMax(MIN_FACTOR, safe_factor(error_norm)), FlOf(h)))

\* The index of the evaluation about to be made: the solver's nfev.
EvalIndex == nfev

\* The solver's step length has fallen below min_step, ten times the
\* spacing of the doubles at its time and far below 1e-9 s: step returns
\* False, solve_ivp leaves its loop with status -1 and raises nothing.
TooSmall == nfev >= 2 /\ step_rejected /\ h_abs = 0

\* (4) one evaluation of state_derivative_wrapped inside solve_ivp.  The
\* first is made at the vector given, the second at the trial point that
\* chooses the first step length; a step then takes five more for its
\* stages and one at its end.  h0 is the length of the trial step,
\* h = min(h_abs, time left) that of the step under way.  With the seventh
\* slope the step's error_norm is known: below 1 the step is accepted, its
\* end becomes y and its last slope the first of the next step; otherwise
\* the step is tried again from the same y, shorter.
\* With mass = 0 line 213 returns nan and inf and raises nothing.  With a
\* nan in the first slope the step length becomes nan: no step is ever
\* accepted or found too small, and the solve goes on evaluating.  With
\* inf alone the first step length is 0, the step's error_norm is nan, the
\* step is rejected and too small.
SolveEval ==
    /\ pc = "solve"
    /\ ts < Interval
    /\ ~TooSmall
    /\ IF Singular(p.inertia)
       THEN /\ failure' = "LinAlgError"
            /\ pc' = "aborted"
            /\ UNCHANGED <<y, sub, ks, h_abs, step_rejected, nfev, ts,
                           evalU, evalY, evalD>>
       ELSE IF ks # <<>> /\ HasNaN(ks[1])
       THEN /\ failure' = "nonfinite"
            /\ UNCHANGED <<pc, y, sub, ks, h_abs, step_rejected, nfev, ts,
                           evalU, evalY, evalD>>
       ELSE \E h0 \in {IF nfev = 1 THEN initial_h0(y, ks[1]) ELSE <<0, 0>>},
               h \in {IF h_abs < Interval - ts THEN h_abs ELSE Interval - ts} :
            /\ evalU' = closure_u(u, EvalIndex)
            /\ evalY' = IF nfev = 0 THEN y
                        ELSE IF nfev = 1 THEN ProbePoint(y, ks[1], h0)
                        ELSE EvalPoint(y, ks, h)
            /\ evalD' = state_derivative_wrapped(p, evalU', t, evalY')
            /\ nfev' = nfev + 1
            /\ IF nfev = 0
               THEN /\ ks' = <<evalD'>>
                    /\ UNCHANGED <<y, sub, h_abs, step_rejected, ts>>
               ELSE IF nfev = 1
               THEN /\ h_abs' = select_initial_step(y, ks[1], evalD', h0)
                    /\ UNCHANGED <<y, sub, ks, step_rejected, ts>>
               ELSE IF Len(ks) < 6
               THEN /\ ks' = Append(ks, evalD')
                    /\ UNCHANGED <<y, sub, h_abs, step_rejected, ts>>
               ELSE IF NonFinite(evalY') \/ NonFinite(evalD')
               THEN /\ h_abs' = h \div 5
                    /\ step_rejected' = TRUE
                    /\ ks' = <<ks[1]>>
                    /\ UNCHANGED <<y, sub, ts>>
               ELSE \E error_norm \in {estimate_error_norm(
                                         Append(ks, evalD'), h, y, evalY')} :
                    IF FlLess(error_norm, One)
                    THEN /\ y' = evalY'
                         /\ sub' = sub + 1
                         /\ ks' = <<evalD'>>
                         /\ ts' = ts + h
                         /\ h_abs' = accepted_h_abs(h, error_norm,
                                                    step_rejected)
                         /\ step_rejected' = FALSE
                    ELSE /\ h_abs' = rejected_h_abs(h, error_norm)
                         /\ step_rejected' = TRUE
                         /\ ks' = <<ks[1]>>
                         /\ UNCHANGED <<y, sub, ts>>
            /\ UNCHANGED <<pc, failure>>
    /\ UNCHANGED <<p, t, t_total, initial_state, state, controller, reference,
                   cmd, consulted, u, output, fnvars>>

\* (5) the solve has reached dt or has failed; line 200:
\* self.state = QuadrotorState.from_state_vector(solution['y'][:, -1]),
\* the last column being the vector after the last accepted step.  The
\* solution's status is not looked at.
SolveFinish ==
    /\ pc = "solve"
    /\ ts = Interval \/ TooSmall
    /\ state' = from_state_vector(y)
    /\ pc' = "record"
    /\ UNCHANGED <<p, t, t_total, initial_state, controller, reference, cmd,
                   consulted, u, y, h_abs, step_rejected, nfev, ts, sub,
                   ks, evalU, evalY, evalD, output,
                   failure, fnvars>>

\* (6) append (t, state, commands) to the output record.
Record ==
    /\ pc = "record"
    /\ output' = Append(output, [t |-> t, state |-> state, rates |-> cmd])
    /\ pc' = "advance"
    /\ UNCHANGED <<p, t, t_total, initial_state, state, controller, reference,
                   cmd, consulted, u, y, h_abs, step_rejected, nfev, ts, sub,
                   ks, evalU, evalY, evalD,
                   failure, fnvars>>

\* (7) self.t += self.dt
Advance ==
    /\ pc = "advance"
    /\ t' = FloatAdd(t, AsDouble(dt))
    /\ pc' = "loop"
    /\ UNCHANGED <<p, t_total, initial_state, state, controller, reference,
                   cmd, consulted, u, y, h_abs, step_rejected, nfev, ts, sub,
                   ks, evalU, evalY, evalD,
                   output, failure, fnvars>>

Next ==
    \/ Construct
    \/ LoopTest
    \/ TrajectoryStep
    \/ ControlStep
    \/ StepMix
    \/ SolveEval
    \/ SolveFinish
    \/ Record
    \/ Advance

Spec == Init /\ [][Next]_vars

---------------------------------------------------------------------------
(* The functions of FullQuadrotorDynamics applied to one input: the rotor  *)
(* rates are mixed, state_derivative is evaluated, the state is packed,    *)
(* the wrapped derivative is taken of the packed vector, and the vector is *)
(* unpacked again.                                                         *)

FnMasses   == {1000, default_mass}
light_inertia == << <<500, 0, 0>>, <<0, 500, 0>>, <<0, 0, 1000>> >>
FnInertias == {default_inertia, light_inertia}

away   == <<10^7, -2 * 10^7, 3 * 10^7>>      \* 1 m, -2 m, 3 m
moving == <<3 * 10^6, 0, -10^6>>             \* 0.3 m/s, 0, -0.1 m/s

\* Orientations that are not of unit length: what the integrator leaves
\* after some drift, and a quaternion of length 1/2.
drifted == <<0, 0, 6 * 10^7, 79996 * 10^3>>
halved  == <<10^7, 2 * 10^7, 2 * 10^7, 4 * 10^7>>

FnStates ==
    {State(x, o, v, w) : x \in {Zero3, away},
                                  o \in Orientations \cup {drifted, halved},
                                  v \in {Zero3, moving},
                                  w \in {Zero3, spin, tumble}}

\* Rates (a, b, a, b) whose total thrust is that of four rotors at the
\* hover rate: b^2 = 2 r^2 - a^2, taken in 0.1 rad/s.
AlternatingPair(a, b) == <<10 * a, 10 * b, 10 * a, 10 * b>>
AlternatingAbout(r, a) == AlternatingPair(a, ISqrt(2 * r * r - a * a))
AlternatingHover(mass, d) ==
    AlternatingAbout(HoverRate(mass) \div 10, HoverRate(mass) \div 10 + d)

\* Rotor 1 boosted and rotor 3 reduced by d, and the other diagonal pair.
DiagonalX(r, d) == <<r + d, r, r - d, r>>
DiagonalY(r, d) == <<r, r + d, r, r - d>>

FnRates ==
    {Four(0), TestControllerStep(AsDouble(0)),
     MoveAndStopControllerStep(AsDouble(0)),
     MoveAndStopControllerStep(AsDouble(1000))}
    \cup {Four(HoverRate(m)) : m \in FnMasses}
    \cup {AlternatingHover(m, 200) : m \in FnMasses}
    \cup {DiagonalX(r, d) : r \in {36000}, d \in {-36000, -100, 100, 36000}}
    \cup {DiagonalY(r, d) : r \in {36000}, d \in {-36000, -100, 100, 36000}}

SimIdle ==
    /\ pc = "idle" /\ t = AsDouble(0) /\ t_total = 0 /\ initial_state = NoState
    /\ state = NoState /\ controller = "none" /\ reference = NoReference
    /\ cmd = NoCommand /\ consulted = 0 /\ u = NoU /\ y = NoVec
    /\ h_abs = 0 /\ step_rejected = FALSE /\ nfev = 0 /\ ts = 0 /\ sub = 0 /\ ks = <<>> /\ evalU = NoU /\ evalY = NoVec /\ evalD = NoVec
    /\ output = <<>> /\ failure = "none"

InitFn ==
    /\ p \in [mass : FnMasses, inertia : FnInertias]
    /\ SimIdle
    /\ fpc = "ready"
    /\ fin \in [state : FnStates, rates : FnRates]
    /\ fu = NoU /\ fd = NoState
    /\ fvec = NoVec /\ fdvec = NoVec /\ fback = NoState

\* step, lines 159-181.
FnMix ==
    /\ fpc = "ready"
    /\ fu' = Mix(rotor_thrust_model(fin.rates))
    /\ fpc' = "mixed"
    /\ UNCHANGED <<p, simvars, fin, fd, fvec, fdvec, fback>>

\* state_derivative(t, state, u1, u2).
FnDerivative ==
    /\ fpc = "mixed"
    /\ fd' = state_derivative(p, 0, fin.state, fu.u1, fu.u2)
    /\ fpc' = "derived"
    /\ UNCHANGED <<p, simvars, fin, fu, fvec, fdvec, fback>>

\* line 195 and the closure of lines 187-193 applied to the packed vector.
FnPack ==
    /\ fpc = "derived"
    /\ fvec' = to_state_vector(fin.state)
    /\ fdvec' = state_derivative_wrapped(p, fu, 0, to_state_vector(fin.state))
    /\ fpc' = "packed"
    /\ UNCHANGED <<p, simvars, fin, fu, fd, fback>>

\* line 200 applied to the packed vector.
FnUnpack ==
    /\ fpc = "packed"
    /\ fback' = from_state_vector(fvec)
    /\ fpc' = "unpacked"
    /\ UNCHANGED <<p, simvars, fin, fu, fd, fvec, fdvec>>

NextFn ==
    \/ FnMix
    \/ FnDerivative
    \/ FnPack
    \/ FnUnpack

SpecFn == InitFn /\ [][NextFn]_vars

---------------------------------------------------------------------------
(* Properties.                                                             *)

AccTol    == 10^5                \* 0.01 m/s^2
ThrustTol == 10^5                \* 0.01 N
PosTol    == 5 * 10^4            \* 5 mm
VelTol    == 5 * 10^4            \* 5 mm/s
RateTol   == 10^4                \* 0.01 rad/s
NormTol   == 2 * 10^3            \* |q| within 1e-6 of 1: |q|^2 within 2e-6

Within(v, tol) == \A i \in DOMAIN v : Abs(v[i]) <= tol
AtRest(s) == s.velocity = FineV(Zero3) /\ s.angular_velocity = FineV(Zero3)
Weight(mass) == FxMulDiv(g, mass, 1000)
Derived == fpc \in {"derived", "packed", "unpacked"}
Origin == State(Zero3, level, Zero3, Zero3)
Built == pc \notin {"idle", "construct"}

\* C1: with zero rotor rates and a state at rest, whatever the orientation
\* and the (positive) mass, state_derivative's velocity derivative is exactly
\* (0, 0, -g) and its angular-velocity derivative is (0, 0, 0).
C1_ZeroInputEquilibrium ==
    (Derived /\ fin.rates = Four(0) /\ AtRest(fin.state) /\ p.mass > 0)
        => /\ fd.velocity = FineV(<<0, 0, -g>>)
           /\ fd.angular_velocity = FineV(Zero3)

\* C2: with all four rotors at the hover rate, from rest and level, the
\* mixed thrust is mass*g and the mixed torque is zero, the translational
\* acceleration is zero, and after every macro-step the position is at the
\* origin and velocity and angular velocity are zero, within a small bound.
C2_Hover ==
    (controller = "HoverController" /\ initial_state = Origin
     /\ p.mass > 0 /\ ~Singular(p.inertia))
        => /\ pc \in {"solve", "record", "advance"}
                => /\ Abs(u.u1 - Weight(p.mass)) <= ThrustTol
                   /\ u.u2 = Zero3
           /\ (pc = "solve" /\ ks # <<>>)
                => Within(WholeV(SubSeq(evalD, 4, 6)), AccTol)
           /\ Built
                => /\ Within(WholeV(state.position), PosTol)
                   /\ Within(WholeV(state.velocity), VelTol)
                   /\ Within(WholeV(state.angular_velocity), RateTol)

\* C3: from a unit-norm initial orientation, after every macro-step and for
\* every command sequence, the orientation of the current state has norm 1
\* within epsilon = 1e-6, the integrated quaternion being renormalized when
\* the state is reconstituted from the integrator's vector.
C3_QuaternionNorm ==
    Built => Abs(Norm2(WholeV(state.orientation)) - 10^9) <= NormTol

\* inertia^-1 * (tau - omega x (I * omega)), written out.
EulerEquation(I, w, tau) ==
    MatVec3(Inv3(I), VSub(FineV(tau), gyroscopic(I, w)), 10^5)

\* C4: state_derivative's angular acceleration is
\* inertia^-1 * (u2 - omega x (I * omega)) with u2 taken in the body frame:
\* every state with the same angular velocity gets, for the same u2, the same
\* angular acceleration, whatever its orientation, position and velocity.
C4_BodyFrameTorque ==
    Derived =>
        /\ fd.angular_velocity
             = EulerEquation(p.inertia, fin.state.angular_velocity, fu.u2)
        /\ \A o \in Orientations :
              state_derivative(p, 0,
                               QuadrotorState(FineV(Zero3), FineV(o),
                                              FineV(Zero3),
                                              fin.state.angular_velocity),
                               fu.u1, fu.u2).angular_velocity
                 = fd.angular_velocity

\* A tilted, displaced, moving, tumbling state under a roll or pitch torque.
C4_Witness ==
    /\ Derived
    /\ fin.state = State(away, tilted, moving, tumble)
    /\ fu.u2[2] # 0
    /\ WholeV(Rot3Mul(fin.state.orientation, FineV(fu.u2))) # fu.u2
    /\ fd.angular_velocity # FineV(Zero3)

\* C5: in one macro-step the controller is consulted exactly once; every
\* evaluation of state_derivative made by the step's ODE solve is handed the
\* (u1, u2) mixed from that command; the command changes only at the
\* controller phase of a macro-step and (u1, u2) only when step mixes it.
C5_ZeroOrderHold ==
    /\ [](pc \in {"step", "solve", "record", "advance"} => consulted = 1)
    /\ [](pc \in {"solve", "record", "advance"}
            => u = Mix(rotor_thrust_model(cmd)))
    /\ []((pc = "solve" /\ ks # <<>>) => evalU = u)
    /\ [][cmd' # cmd => pc = "controller"]_vars
    /\ [][u' # u => pc = "step"]_vars
    /\ [][evalU' # evalU => (pc = "solve" /\ evalU' = u)]_vars

\* The last of the evaluations of a later macro-step, whose command
\* differs from the one recorded for the macro-step before.
C5_Witness ==
    /\ pc = "solve"
    /\ sub >= 1
    /\ ks # <<>>
    /\ ts = Interval
    /\ consulted = 1
    /\ Len(output) >= 1
    /\ output[Len(output)].rates # cmd
    /\ evalU = u
    /\ u.u1 > 0

\* The vector line 343 prints for the state line 344 prints.
start_state_vector ==
    FineV(<<0, 0, 0, 0, 0, 0, 0, 0, 0, QS, 0, 0, 0>>)

Remaining ==
    IF FloatLess(t, AsDouble(t_total)) THEN t_total - t.ms + 1 ELSE 0
Phase ==
    CASE pc = "construct"  -> 10
      [] pc = "loop"       -> 9
      [] pc = "trajectory" -> 8
      [] pc = "controller" -> 7
      [] pc = "step"       -> 6
      [] pc = "solve"      -> 5
      [] pc = "record"     -> 2
      [] pc = "advance"    -> 1
      [] OTHER             -> 0
Rank ==
    IF pc = "solve"
    THEN <<Remaining, Phase,
           IF nfev = 0 THEN 2 ELSE IF nfev = 1 THEN 1 ELSE 0,
           Interval - ts, IF TooSmall THEN 0 ELSE 1, h_abs, 6 - Len(ks)>>
    ELSE <<Remaining, Phase, 0, 0, 0, 0, 0>>

RECURSIVE LexLess(_, _, _)
LexLess(a, b, i) ==
    /\ i <= Len(a)
    /\ \/ a[i] < b[i]
       \/ a[i] = b[i] /\ LexLess(a, b, i + 1)

\* t after n macro-steps: dt added n times to 0.0
RECURSIVE Accumulated(_)
Accumulated(n) ==
    IF n = 0 THEN AsDouble(0) ELSE FloatAdd(Accumulated(n - 1), AsDouble(dt))

\* C7: the run is finite: every step of it lowers a variant that is bounded
\* below; each macro-step goes through trajectory eval, controller step,
\* dynamics step and record append in that order and then advances t by dt;
\* the loop stops once t >= t_total, having appended one record per
\* macro-step, the last at a t < t_total, and nothing runs after that.
C7_Termination ==
    /\ [](\A i \in 1..Len(Rank) : Rank[i] >= 0)
    /\ [][LexLess(Rank', Rank, 1)]_vars
    /\ [](pc = "done" => /\ ~FloatLess(t, AsDouble(t_total))
                         /\ output # <<>>
                         /\ FloatLess(output[Len(output)].t,
                                      AsDouble(t_total))
                         /\ t = Accumulated(Len(output))
                         /\ failure = "none")
    /\ [](pc \in {"done", "aborted"} => ~ENABLED Next)
    /\ [][/\ pc = "loop" => pc' = (IF FloatLess(t, AsDouble(t_total))
                                  THEN "trajectory" ELSE "done")
          /\ pc = "trajectory" => pc' = "controller"
          /\ pc = "controller" => pc' = "step"
          /\ pc = "step" => pc' \in {"solve", "aborted"}
          /\ pc = "solve" => pc' \in {"solve", "record", "aborted"}
          /\ pc = "record" => /\ pc' = "advance"
                              /\ output' = Append(output,
                                                  [t |-> t, state |-> state,
                                                   rates |-> cmd])
          /\ pc # "record" => output' = output
          /\ pc = "advance" =>
                 (pc' = "loop" /\ t' = FloatAdd(t, AsDouble(dt)))
          /\ pc # "advance" => t' = t]_vars

Alternating(r) == Len(r) = 4 /\ r[1] = r[3] /\ r[2] = r[4] /\ r[1] # r[2]

\* C8: for alternating rotor rates (rotors 1 and 3 equal, 2 and 4 equal, the
\* pairs differing) whose total thrust is that of hover, state_derivative at
\* rest and level gives zero translational acceleration and an angular
\* acceleration that is nonzero about body Z and zero about body X and Y.
C8_YawOnly ==
    (/\ Derived
     /\ Alternating(fin.rates)
     /\ Abs(fu.u1 - Weight(p.mass)) <= ThrustTol
     /\ AtRest(fin.state)
     /\ fin.state.orientation = FineV(level))
        => /\ Within(WholeV(fd.velocity), AccTol)
           /\ fd.angular_velocity[1] = FineOf(0)
           /\ fd.angular_velocity[2] = FineOf(0)
           /\ fd.angular_velocity[3] # FineOf(0)

u2_of(rates) == Mix(rotor_thrust_model(rates)).u2

\* C9: for rates (r+d, r, r-d, r), r >= d > 0, the roll torque u2x is zero
\* and the pitch torque u2y is negative; for (r, r+d, r, r-d) the pitch
\* torque is zero and the roll torque is positive; exchanging the boosted
\* and the reduced rotor negates the torque.
C9_DiagonalSymmetry ==
    fpc # "ready" =>
        LET r1 == fin.rates[1]
            r2 == fin.rates[2]
            r3 == fin.rates[3]
            r4 == fin.rates[4]
        IN  /\ (r2 = r4 /\ r1 - r2 = r2 - r3 /\ r1 > r2 /\ r3 >= 0)
                 => (fu.u2[1] = 0 /\ fu.u2[2] < 0)
            /\ (r1 = r3 /\ r2 - r1 = r1 - r4 /\ r2 > r1 /\ r4 >= 0)
                 => (fu.u2[2] = 0 /\ fu.u2[1] > 0)
            /\ u2_of(<<r3, r2, r1, r4>>)[2] = -fu.u2[2]
            /\ u2_of(<<r3, r2, r1, r4>>)[1] = fu.u2[1]
            /\ u2_of(<<r1, r4, r3, r2>>)[1] = -fu.u2[1]
            /\ u2_of(<<r1, r4, r3, r2>>)[2] = fu.u2[2]

\* Rotor 1 boosted and rotor 3 reduced: a pitch torque and no roll torque.
C9_Witness ==
    /\ fpc = "mixed"
    /\ fin.rates = DiagonalX(36000, 100)
    /\ fu.u2[1] = 0
    /\ fu.u2[2] < 0
    /\ u2_of(DiagonalX(36000, -100))[2] > 0

\* C10: a configuration with mass = 0 or a singular inertia tensor is
\* refused at construction: the run does not get past construction with it,
\* and the value is never first met inside state_derivative.
C10_FatalAtConstruction ==
    (p.mass = 0 \/ Singular(p.inertia))
        => /\ pc = "construct" \/ (pc = "aborted" /\ failure = "ConfigError")
           /\ failure \notin {"LinAlgError", "nonfinite"}


\* C11: a command whose length is not 4 ends the run where step consumes
\* it: the step that meets it raises ValueError and changes nothing else
\* (the state, the mixed inputs, the integrator's vector, the evaluations,
\* the record and t are as they were), a command of length 4 is never
\* refused there, and after the failure nothing runs: the controller has
\* been consulted once and is not consulted again, and the record holds
\* only the macro-steps completed before.
C11_MalformedCommandFatal ==
    /\ [][(pc = "step" /\ Len(cmd) # 4) =>
              /\ pc' = "aborted"
              /\ failure' = "ValueError"
              /\ state' = state
              /\ <<u, y, h_abs, step_rejected, nfev, ts, sub, ks>>'
                     = <<u, y, h_abs, step_rejected, nfev, ts, sub, ks>>
              /\ <<evalU, evalY, evalD>>' = <<evalU, evalY, evalD>>
              /\ <<output, t, cmd, consulted>>' = <<output, t, cmd, consulted>>
       ]_vars
    /\ [][(pc = "step" /\ Len(cmd) = 4) =>
              (pc' = "solve" /\ failure' = failure)]_vars
    /\ [](failure = "ValueError" =>
              /\ pc = "aborted"
              /\ Len(cmd) # 4
              /\ consulted = 1
              /\ t = Accumulated(Len(output))
              /\ ~ENABLED Next)

\* A run refused at its third macro-step: two steps were completed with
\* well-formed commands, then a command of five rates was met, and the state
\* is the one the second step left.
C11_Witness ==
    /\ pc = "aborted"
    /\ failure = "ValueError"
    /\ Len(cmd) = 5
    /\ Len(output) = 2
    /\ t = Accumulated(2)
    /\ state # initial_state
    /\ state = from_state_vector(y)
    /\ u = Mix(rotor_thrust_model(Four(36100)))

\* The dot product of a quaternion (1/QS) and a quaternion rate (1e-6 /s),
\* in 1e-6 /s.
Dot4(a, b) ==
    FxMulDiv(a[1], b[1], QS) + FxMulDiv(a[2], b[2], QS)
    + FxMulDiv(a[3], b[3], QS) + FxMulDiv(a[4], b[4], QS)

\* What rounding can leave of an exact zero: half a unit for each of the four
\* products of Dot4, and up to 1.5 units in each component of the rate (three
\* rounded products and a rounded halving) weighted by the component of q.
DotTol(q) ==
    2 + (3 * (Abs(q[1]) + Abs(q[2]) + Abs(q[3]) + Abs(q[4]))) \div (2 * QS) + 1

\* Quaternions that are not rotations: long, short, mixed signs, zero.
OffUnit ==
    {<<3 * 10^7, -7 * 10^7, 12 * 10^7, 5 * 10^6>>,
     <<-2 * 10^8, 10^6, 0, 15 * 10^7>>,
     <<10^6, 2 * 10^6, -3 * 10^6, 5 * 10^5>>, <<0, 0, 0, 0>>}

Orthogonal(q, w) ==
    /\ Abs(Dot4(q, WholeV(dRot3(FineV(q), w)))) <= DotTol(q)
    /\ dRot3(FineV(q), FineV(Zero3)) = FineV(<<0, 0, 0, 0>>)

\* C12: the quaternion rate dRot3 returns is orthogonal to the quaternion
\* it is built from, for every orientation and angular velocity
\* state_derivative is given and for quaternions of any length, and it is
\* (0, 0, 0, 0) when the angular velocity is zero.
C12_DerivativeOrthogonal ==
    fpc = "derived" =>
        /\ fd.orientation
             = dRot3(fin.state.orientation, fin.state.angular_velocity)
        /\ Abs(Dot4(WholeV(fin.state.orientation), WholeV(fd.orientation)))
             <= DotTol(WholeV(fin.state.orientation))
        /\ fin.state.angular_velocity = FineV(Zero3)
             => fd.orientation = FineV(<<0, 0, 0, 0>>)
        /\ \A q \in OffUnit : Orthogonal(q, fin.state.angular_velocity)

\* A rate with no zero component, for a quaternion with no zero component:
\* the four products are far above the tolerance and cancel.
C12_Witness ==
    /\ fpc = "derived"
    /\ fin.state.orientation = FineV(skewed)
    /\ fin.state.angular_velocity = FineV(tumble)
    /\ \A i \in 1..4 :
           Abs(FxMulDiv(skewed[i], Whole(fd.orientation[i]), QS))
               > 1000 * DotTol(skewed)
=============================================================================
